---- MODULE Spec2Model ----
(***************************************************************************)
(* Challenge-response authentication of nostr-auth-middleware.             *)
(*                                                                         *)
(* Two NostrService classes live in src/src/services/nostr.service.ts:     *)
(*   - the Supabase-backed one (lines 24-169), driven by the middleware    *)
(*     handler handleVerification (src/unnamed/part_023);                  *)
(*   - the in-memory one (lines 189-503).                                  *)
(* The variable `variant` says which of the two a behaviour runs.          *)
(*                                                                         *)
(* Cryptography is symbolic: the sha256 of the canonical serialisation is  *)
(* the tuple of the serialised fields (collision free), a Schnorr          *)
(* signature is the pair <<signer, signed hash>> (unforgeable), and a JWT  *)
(* is its payload together with the secret of its HMAC.                    *)
(***************************************************************************)
EXTENDS Integers, Sequences, FiniteSets, TLC

VARIABLES
  variant,     \* "memory" | "supabase": which NostrService class is running
  config,      \* the NostrAuthConfig the service was constructed with
  now,         \* Date.now(), in milliseconds
  challenges,  \* in-memory: Map<string, NostrChallenge>
  profiles,    \* in-memory: Map<string, NostrProfile>
  rows,        \* supabase: the rows of table 'challenges', in insertion order
  nrand,       \* number of createChallenge calls that drew random values
  issued,      \* history: every challenge createChallenge has returned
  lastOp,      \* the call that has just returned, "idle" between calls
  lastArg,     \* its arguments
  lastRet      \* what it returned (or threw)

vars == <<variant, config, now, challenges, profiles, rows, nrand, issued,
          lastOp, lastArg, lastRet>>

-----------------------------------------------------------------------------
(* Bounds of the model *)

TickMs == 150000
MaxTicks == 3
MaxChallenges == 2
HandlerMaxTicks == 1
ClockStartMs == 1000000
MaxEnvLen == 3
MaxHeaderLen == 2
MaxUserIdLen == 3
MaxApiKeyLen == 5

(* Program constants *)

CHALLENGE_EXPIRY == 5 * 60 * 1000
DEFAULT_EVENT_TIMEOUT_MS == 300000
DEFAULT_JWT_EXPIRES_IN == "1h"
ChallengeKind == 22242
MAX_TIMESTAMP_DIFF == 300

(* Values of the environment *)

Keys == {"alice", "bob"}
ServerPub == "server"
Secrets == {"s1", "s2"}
OtherKey(k) == CHOOSE o \in Keys : o # k

NowSec == now \div 1000

-----------------------------------------------------------------------------
(* Events, hashes and signatures *)

\* sha256(JSON.stringify([0, pubkey, created_at, kind, tags, content])): an
\* injective function of the six serialised values.
generateEventHash(e) ==
  [pubkey |-> e.pubkey, created_at |-> e.created_at, kind |-> e.kind,
   tags |-> e.tags, content |-> e.content]

\* The empty string '' where an id is expected.
NoId == [pubkey |-> "", created_at |-> 0, kind |-> 0, tags |-> <<>>, content |-> <<>>]

\* schnorr.sign(hash, privateKey); the key pair is named by its public key.
SchnorrSign(hash, key) == <<key, hash>>
EmptySig == <<>>
GarbageSig == <<"zz">>

\* Whether sig is a string of hex digits (hexToBytes throws on any other).
IsHex(sig) == sig # GarbageSig

\* schnorr.verify(hexToBytes(signature), hash, hexToBytes(publicKey)) of
\* @noble/curves: "true", "false", or "throws" when hexToBytes rejects its input.
SchnorrVerify(sig, hash, pubkey) ==
  IF ~IsHex(sig) THEN "throws"
  ELSE IF Len(sig) = 2 /\ sig[1] = pubkey /\ sig[2] = hash THEN "true"
  ELSE "false"

\* verifySignature(signature, hash, publicKey) of the in-memory service's
\* crypto.utils: a throw is caught and answered with false.
verifySignature(sig, hash, pubkey) ==
  LET outcome == SchnorrVerify(sig, hash, pubkey)
  IN  IF outcome = "throws" THEN FALSE ELSE outcome = "true"

\* NostrEventValidator.validateEvent
NostrEventValidator(event) ==
  IF event.id = NoId \/ event.pubkey = "" \/ event.sig = EmptySig
    THEN FALSE
    ELSE verifySignature(event.sig, event.id, event.pubkey)

-----------------------------------------------------------------------------
(* JSON web tokens *)

\* The `ms` conversion jsonwebtoken applies to expiresIn, in seconds.
ExpiresInSeconds(s) ==
  CASE s = "1h" -> 3600
    [] s = "5m" -> 300
    [] OTHER -> 0

NoToken == [fmt |-> "none", payload |-> [pubkey |-> "", iat |-> 0, exp |-> 0], mac |-> ""]
GarbageToken == [fmt |-> "garbage", payload |-> [pubkey |-> "", iat |-> 0, exp |-> 0], mac |-> ""]

\* jwt.sign({ pubkey }, secret, { expiresIn }) at time t (seconds)
JwtSign(pubkey, secret, expiresIn, t) ==
  [fmt |-> "jwt",
   payload |-> [pubkey |-> pubkey, iat |-> t, exp |-> t + ExpiresInSeconds(expiresIn)],
   mac |-> secret]

\* jwt.verify(token, secret) at time t (seconds): TRUE when it returns the payload
JwtVerifyOk(token, secret, t) ==
  /\ token.fmt = "jwt"
  /\ secret # ""
  /\ token.mac = secret
  /\ t < token.payload.exp

-----------------------------------------------------------------------------
(* The in-memory NostrService *)

\* generateChallenge(serverPrivateKey, clientPubkey) with random value r
generateChallenge(clientPubkey, r) ==
  LET unsignedEvent ==
        [kind |-> ChallengeKind,
         created_at |-> NowSec,
         tags |-> << <<"p", clientPubkey>>,
                     <<"relay", "wss://relay.damus.io">>,
                     <<"challenge", r>> >>,
         content |-> <<>>,
         pubkey |-> ServerPub]
      id == generateEventHash(unsignedEvent)
  IN  [kind |-> unsignedEvent.kind, created_at |-> unsignedEvent.created_at,
       tags |-> unsignedEvent.tags, content |-> unsignedEvent.content,
       pubkey |-> unsignedEvent.pubkey, id |-> id,
       sig |-> SchnorrSign(id, ServerPub)]

\* A challenge id no createChallenge ever returns (random value 0 is never drawn).
UnknownId ==
  generateEventHash([kind |-> ChallengeKind, created_at |-> 0,
                     tags |-> << <<"p", "nobody">>,
                                 <<"relay", "wss://relay.damus.io">>,
                                 <<"challenge", 0>> >>,
                     content |-> <<>>, pubkey |-> ServerPub])

Restrict(f, S) == [x \in S |-> f[x]]

cleanupExpiredChallengesDropsAll(m) == Restrict(m, {})

cleanupExpiredChallengesInclusive(m) ==
  Restrict(m, {id \in DOMAIN m : ~(m[id].expiresAt <= now)})

\* cleanupExpiredChallenges(): the map without the entries with expiresAt < now
cleanupExpiredChallenges(m) ==
  Restrict(m, {id \in DOMAIN m : ~(m[id].expiresAt < now)})

NoChallenge == [id |-> NoId, expiresAt |-> 0]
NoArg == [none |-> TRUE]
NoRet == [none |-> TRUE]

\* createChallenge(pubkey) of the in-memory service
MemCreateChallenge(pubkey) ==
  /\ lastOp = "idle"
  /\ variant = "memory"
  /\ nrand < MaxChallenges
  /\ lastOp' = "createChallenge"
  /\ lastArg' = [pubkey |-> pubkey]
  /\ IF config.privateKey = ""
       THEN /\ lastRet' = [threw |-> TRUE, challenge |-> NoChallenge]
            /\ UNCHANGED <<challenges, nrand, issued>>
       ELSE LET challengeEvent == generateChallenge(pubkey, nrand + 1)
                expiresAt == now + CHALLENGE_EXPIRY
                challenge == [id |-> challengeEvent.id, event |-> challengeEvent,
                              expiresAt |-> expiresAt]
                kept == cleanupExpiredChallenges(challenges)
            IN  /\ challenges' =
                     [id \in DOMAIN kept \cup {challenge.id} |->
                        IF id = challenge.id THEN challenge ELSE kept[id]]
                /\ nrand' = nrand + 1
                /\ issued' = issued \cup {[id |-> challenge.id, pubkey |-> pubkey,
                                             expiresAt |-> expiresAt]}
                /\ lastRet' = [threw |-> FALSE,
                               challenge |-> [id |-> challenge.id,
                                              expiresAt |-> expiresAt]]
  /\ UNCHANGED <<variant, config, now, profiles, rows>>

\* The event a client builds and signs for challenge cid with key k
\* (scripts/tests/test-auth-live.ts), and the ways a submitted event can
\* deviate from it.
Deviations ==
  {"none", "kind", "future", "content_signed",
   "content_tampered", "tags_tampered", "sig_other_key", "sig_empty",
   "sig_garbage", "id_empty", "pubkey_swapped"}

ExpectedContent(challengeId) == <<"nostr:auth:", challengeId>>
OtherContent(cid) == <<"hello", cid>>

Signed(u, k) ==
  LET id == generateEventHash(u)
  IN  [kind |-> u.kind, created_at |-> u.created_at, tags |-> u.tags,
       content |-> u.content, pubkey |-> u.pubkey, id |-> id,
       sig |-> SchnorrSign(id, k)]

ClientEvent(k, cid, content, d) ==
  LET honest == [kind |-> ChallengeKind, created_at |-> NowSec,
                 tags |-> << <<"challenge", cid>> >>,
                 content |-> content, pubkey |-> k]
      other == OtherContent(cid)
  IN  CASE d = "none" -> Signed(honest, k)
        [] d = "kind" -> Signed([honest EXCEPT !.kind = 1], k)
        [] d = "future" -> Signed([honest EXCEPT !.created_at = NowSec + 1000], k)
        [] d = "content_signed" -> Signed([honest EXCEPT !.content = other], k)
        [] d = "content_tampered" ->
             [Signed([honest EXCEPT !.content = other], k) EXCEPT !.content = content]
        [] d = "tags_tampered" ->
             [Signed([honest EXCEPT !.tags = <<>>], k) EXCEPT !.tags = honest.tags]
        [] d = "sig_other_key" ->
             [Signed(honest, k) EXCEPT !.sig = SchnorrSign(@[2], OtherKey(k))]
        [] d = "sig_empty" -> [Signed(honest, k) EXCEPT !.sig = EmptySig]
        [] d = "sig_garbage" -> [Signed(honest, k) EXCEPT !.sig = GarbageSig]
        [] d = "id_empty" -> [Signed(honest, k) EXCEPT !.id = NoId]
        [] d = "pubkey_swapped" -> [Signed(honest, k) EXCEPT !.pubkey = OtherKey(k)]

NoProfile == [pubkey |-> "", name |-> <<>>]

MemGenerateTokenWrongKey(pubkey) ==
  JwtSign(OtherKey(pubkey), config.jwtSecret,
          IF config.jwtExpiresIn = "" THEN "1h" ELSE config.jwtExpiresIn,
          NowSec)

\* generateToken(pubkey) of the in-memory service, when the secret is set
MemGenerateToken(pubkey) ==
  JwtSign(pubkey, config.jwtSecret,
          IF config.jwtExpiresIn = "" THEN "1h" ELSE config.jwtExpiresIn,
          NowSec)

\* getOrCreateProfile(pubkey): the profile it returns
getOrCreateProfile(pubkey) ==
  IF pubkey \in DOMAIN profiles
    THEN profiles[pubkey]
    ELSE [pubkey |-> pubkey, name |-> <<"nostr:", pubkey>>]

NoPubkey == ""

Fail(field, msg) ==
  [success |-> FALSE, message |-> IF field = "message" THEN msg ELSE "",
   error |-> IF field = "error" THEN msg ELSE "",
   pubkey |-> NoPubkey, token |-> NoToken, profile |-> NoProfile]

\* verifyChallenge(challengeId, signedEvent) of the in-memory service: its result
MemVerifyResult(challengeId, signedEvent) ==
  IF challengeId \notin DOMAIN challenges
    THEN Fail("message", "Challenge not found or expired")
  ELSE IF ~NostrEventValidator(signedEvent)
    THEN Fail("message", "Invalid signature")
  ELSE IF signedEvent.content # ExpectedContent(challengeId)
    THEN Fail("message", "Challenge mismatch")
  ELSE IF config.jwtSecret = ""
    THEN Fail("message", "Verification failed")
  ELSE [success |-> TRUE, message |-> "", error |-> "", pubkey |-> NoPubkey,
        token |-> MemGenerateToken(signedEvent.pubkey),
        profile |-> getOrCreateProfile(signedEvent.pubkey)]

MemVerifyChallengeStoresProfileFirst(challengeId, signedEvent, replayed) ==
  /\ variant = "memory"
  /\ LET result == MemVerifyResult(challengeId, signedEvent)
     IN  /\ lastOp' = "verifyChallenge"
         /\ lastArg' = [challengeId |-> challengeId, event |-> signedEvent,
                        sigcheck |-> SchnorrVerify(signedEvent.sig, signedEvent.id,
                                                   signedEvent.pubkey),
                        replayed |-> replayed]
         /\ lastRet' = result
         /\ profiles' =
              IF NostrEventValidator(signedEvent)
                   /\ signedEvent.pubkey \notin DOMAIN profiles
                THEN [k \in DOMAIN profiles \cup {signedEvent.pubkey} |->
                        IF k = signedEvent.pubkey
                          THEN getOrCreateProfile(signedEvent.pubkey)
                          ELSE profiles[k]]
                ELSE profiles
  /\ UNCHANGED <<variant, config, now, challenges, rows, nrand, issued>>

\* verifyChallenge(challengeId, signedEvent) of the in-memory service;
\* replayed says that the same call has just succeeded
MemVerifyChallenge(challengeId, signedEvent, replayed) ==
  /\ variant = "memory"
  /\ LET result == MemVerifyResult(challengeId, signedEvent)
     IN  /\ lastOp' = "verifyChallenge"
         /\ lastArg' = [challengeId |-> challengeId, event |-> signedEvent,
                        sigcheck |-> SchnorrVerify(signedEvent.sig, signedEvent.id,
                                                   signedEvent.pubkey),
                        replayed |-> replayed]
         /\ lastRet' = result
         /\ profiles' =
              IF result.success /\ signedEvent.pubkey \notin DOMAIN profiles
                THEN [k \in DOMAIN profiles \cup {signedEvent.pubkey} |->
                        IF k = signedEvent.pubkey THEN result.profile ELSE profiles[k]]
                ELSE profiles
  /\ UNCHANGED <<variant, config, now, challenges, rows, nrand, issued>>

-----------------------------------------------------------------------------
(* The Supabase-backed NostrService and its handler *)

\* The 64 hex digits a pubkey must be
IsHex64(pubkey) == pubkey \in Keys \cup {ServerPub}

\* The 128 hex digits a signature must be
IsHex128(sig) == Len(sig) = 2

\* verifySignature(event) of nostr-crypto-utils: the outcomes it can have.  It
\* recomputes the id and verifies the Schnorr signature over it; on an event
\* with no id the library may answer false or throw.
LibVerifyOutcomes(event) ==
  IF event.id = NoId THEN {"false", "throws"}
  ELSE IF event.id = generateEventHash(event)
          /\ SchnorrVerify(event.sig, event.id, event.pubkey) = "true"
    THEN {"true"}
  ELSE {"false"}

validateEventIgnoringSig(event, outcome) ==
  IF event.pubkey = "" \/ event.content = <<>> \/ event.sig = EmptySig
    THEN Fail("error", "Missing required fields")
  ELSE IF ~IsHex64(event.pubkey)
    THEN Fail("error", "Invalid pubkey format")
  ELSE IF ~IsHex128(event.sig)
    THEN Fail("error", "Invalid signature format")
  ELSE IF outcome = "throws"
    THEN Fail("error", "Event validation failed")
  ELSE [Fail("error", "") EXCEPT !.success = TRUE, !.pubkey = event.pubkey]

\* validateEvent(event) of validators/event.validator.ts, the signature
\* primitive having the given outcome
validateEvent(event, outcome) ==
  IF event.pubkey = "" \/ event.content = <<>> \/ event.sig = EmptySig
    THEN Fail("error", "Missing required fields")
  ELSE IF ~IsHex64(event.pubkey)
    THEN Fail("error", "Invalid pubkey format")
  ELSE IF ~IsHex128(event.sig)
    THEN Fail("error", "Invalid signature format")
  ELSE IF outcome = "throws"
    THEN Fail("error", "Event validation failed")
  ELSE IF outcome # "true"
    THEN Fail("error", "Invalid signature")
  ELSE [Fail("error", "") EXCEPT !.success = TRUE, !.pubkey = event.pubkey]

\* The challenge string `${challengePrefix || 'nostr-auth:'} ${random}`
ChallengeString(r) == <<"nostr-auth:", r>>

\* A challenge string createChallenge never returns
UnknownChallenge == ChallengeString(0)

\* createChallenge(pubkey) of the Supabase-backed service.  The two
\* Math.random() strings are taken to be fresh.
SbCreateChallenge(pubkey) ==
  /\ lastOp = "idle"
  /\ variant = "supabase"
  /\ nrand < MaxChallenges
  /\ LET nowS == NowSec
         challenge ==
           [id |-> 2 * nrand + 1,
            challenge |-> ChallengeString(2 * nrand + 2),
            created_at |-> nowS,
            expires_at |-> nowS + (config.eventTimeoutMs \div 1000),
            pubkey |-> pubkey]
     IN  /\ rows' = IF config.supabase THEN Append(rows, challenge) ELSE rows
         /\ issued' = issued \cup {challenge}
         /\ lastRet' = [threw |-> FALSE, challenge |-> challenge.challenge]
  /\ nrand' = nrand + 1
  /\ lastOp' = "createChallenge"
  /\ lastArg' = [pubkey |-> pubkey]
  /\ UNCHANGED <<variant, config, now, challenges, profiles>>

\* .from('challenges').select('*').eq('pubkey', pubkey).single(): the rows it
\* matches; data is the row when there is exactly one, and null otherwise
SelectByPubkey(pubkey) == SelectSeq(rows, LAMBDA r : r.pubkey = pubkey)

DeleteByIdNothing(id) == rows

\* .from('challenges').delete().eq('id', id)
DeleteById(id) == SelectSeq(rows, LAMBDA r : r.id # id)

SbVerifyChallengeExpiresEarly(event, outcome) ==
  LET validationResult == validateEvent(event, outcome)
      matching == SelectByPubkey(event.pubkey)
  IN  IF ~validationResult.success
        THEN <<validationResult, rows>>
      ELSE IF ~config.supabase
        THEN <<[Fail("error", "") EXCEPT !.success = TRUE, !.pubkey = event.pubkey],
               rows>>
      ELSE IF Len(matching) # 1
        THEN <<Fail("error", "Challenge not found"), rows>>
      ELSE IF matching[1].expires_at <= NowSec
        THEN <<Fail("error", "Challenge expired"), rows>>
      ELSE <<[Fail("error", "") EXCEPT !.success = TRUE, !.pubkey = event.pubkey],
             DeleteById(matching[1].id)>>

\* verifyChallenge(event) of the Supabase-backed service: <<result, rows after>>
SbVerifyChallenge(event, outcome) ==
  LET validationResult == validateEvent(event, outcome)
      matching == SelectByPubkey(event.pubkey)
  IN  IF ~validationResult.success
        THEN <<validationResult, rows>>
      ELSE IF ~config.supabase
        THEN <<[Fail("error", "") EXCEPT !.success = TRUE, !.pubkey = event.pubkey],
               rows>>
      ELSE IF Len(matching) # 1
        THEN <<Fail("error", "Challenge not found"), rows>>
      ELSE IF matching[1].expires_at < NowSec
        THEN <<Fail("error", "Challenge expired"), rows>>
      ELSE <<[Fail("error", "") EXCEPT !.success = TRUE, !.pubkey = event.pubkey],
             DeleteById(matching[1].id)>>

\* generateToken(pubkey) of the Supabase-backed service: generateJWT
SbGenerateToken(pubkey) ==
  JwtSign(pubkey, config.jwtSecret, config.jwtExpiresIn, NowSec)

\* handleVerification: verifyChallenge(event), then on success a token for
\* result.pubkey is added to the response; replayed says that the same event
\* has just been accepted
HandleVerification(event, outcome, replayed) ==
  /\ variant = "supabase"
  /\ LET r == SbVerifyChallenge(event, outcome)
         result == r[1]
     IN  /\ rows' = r[2]
         /\ lastRet' =
              IF result.success /\ result.pubkey # NoPubkey
                THEN [result EXCEPT !.token = SbGenerateToken(result.pubkey)]
                ELSE result
  /\ lastOp' = "verifyChallenge"
  /\ lastArg' = [event |-> event, sigcheck |-> outcome,
                 stored |-> SelectByPubkey(event.pubkey),
                 rowsBefore |-> rows,
                 replayed |-> replayed]
  /\ UNCHANGED <<variant, config, now, challenges, profiles, nrand, issued>>

-----------------------------------------------------------------------------
(* Tokens and the clock *)

\* generateJWT(pubkey, secret, expiresIn)
generateJWT(pubkey, secret, expiresIn) ==
  JwtSign(pubkey, secret, expiresIn, NowSec)

verifyJWTAtDecodeOnly(token, secret, t) ==
  IF token.fmt = "jwt"
    THEN [threw |-> "", pubkey |-> token.payload.pubkey,
          iat |-> token.payload.iat, exp |-> token.payload.exp]
    ELSE [threw |-> "Invalid JWT", pubkey |-> "", iat |-> 0, exp |-> 0]

\* verifyJWT(token, secret) at time t: the payload, or the Error it throws
verifyJWTAt(token, secret, t) ==
  IF JwtVerifyOk(token, secret, t)
    THEN [threw |-> "", pubkey |-> token.payload.pubkey,
          iat |-> token.payload.iat, exp |-> token.payload.exp]
    ELSE [threw |-> "Invalid JWT", pubkey |-> "", iat |-> 0, exp |-> 0]

\* verifyJWT(token, secret)
verifyJWT(token, secret) == verifyJWTAt(token, secret, NowSec)

TickTimes == {(n * TickMs) \div 1000 : n \in 0..MaxTicks}

\* The tokens a caller can present: any token signed at an earlier tick, with
\* any secret, and a string that is no JWT.
Tokens ==
  {JwtSign(p, s, e, t) :
     p \in Keys, s \in Secrets, e \in {"1h", "5m"},
     t \in {u \in TickTimes : u <= NowSec}}
  \cup {GarbageToken}

GenerateJWT(pubkey, secret, expiresIn) ==
  /\ lastOp = "idle"
  /\ variant = "jwt"
  /\ lastOp' = "generateJWT"
  /\ lastArg' = [pubkey |-> pubkey, secret |-> secret, expiresIn |-> expiresIn]
  /\ lastRet' = generateJWT(pubkey, secret, expiresIn)
  /\ UNCHANGED <<variant, config, now, challenges, profiles, rows, nrand, issued>>

VerifyJWT(token, secret) ==
  /\ lastOp = "idle"
  /\ variant = "jwt"
  /\ lastOp' = "verifyJWT"
  /\ lastArg' = [token |-> token, secret |-> secret]
  /\ lastRet' = verifyJWT(token, secret)
  /\ UNCHANGED <<variant, config, now, challenges, profiles, rows, nrand, issued>>

\* Time passes between two calls.
Tick ==
  /\ lastOp = "idle"
  /\ now + TickMs <= MaxTicks * TickMs
  /\ now' = now + TickMs
  /\ UNCHANGED <<variant, config, challenges, profiles, rows, nrand, issued,
                 lastOp, lastArg, lastRet>>

\* The caller has its answer; the service waits for the next call.
Return ==
  /\ lastOp # "idle"
  /\ lastOp' = "idle"
  /\ lastArg' = NoArg
  /\ lastRet' = NoRet
  /\ UNCHANGED <<variant, config, now, challenges, profiles, rows, nrand, issued>>

-----------------------------------------------------------------------------
(* Construction *)

RawConfig(secret, expiresIn, timeoutMs, supabase, privateKey) ==
  [jwtSecret |-> secret, jwtExpiresIn |-> expiresIn, eventTimeoutMs |-> timeoutMs,
   supabase |-> supabase, privateKey |-> privateKey]

\* constructor of the in-memory service
MemConstructor(cfg) ==
  [cfg EXCEPT !.eventTimeoutMs = IF @ = 0 THEN 5000 ELSE @]

SbConstructorShortDefault(cfg) ==
  [cfg EXCEPT !.eventTimeoutMs = IF @ = 0 THEN 5000 ELSE @,
              !.jwtExpiresIn = IF @ = "" THEN DEFAULT_JWT_EXPIRES_IN ELSE @]

\* constructor of the Supabase-backed service (it throws without a jwtSecret)
SbConstructor(cfg) ==
  [cfg EXCEPT !.eventTimeoutMs = IF @ = 0 THEN DEFAULT_EVENT_TIMEOUT_MS ELSE @,
              !.jwtExpiresIn = IF @ = "" THEN DEFAULT_JWT_EXPIRES_IN ELSE @]

MemConfigs ==
  {MemConstructor(c) :
     c \in {RawConfig("s1", "5m", 0, FALSE, "serverpriv"),
            RawConfig("", "", 0, FALSE, "serverpriv"),
            RawConfig("s1", "", 0, FALSE, "")}}

\* The configurations handed to the Supabase-backed service; 0 stands for an
\* eventTimeoutMs left undefined or set to 0
SbRawConfigs ==
  {RawConfig("s1", "5m", 0, TRUE, ""),
   RawConfig("s1", "", 1500, FALSE, "")}

SbConfigs == {SbConstructor(c) : c \in SbRawConfigs}

JwtConfigs == {RawConfig("s1", "", 0, FALSE, "")}

Init ==
  /\ variant \in {"memory", "supabase", "jwt"}
  /\ config \in (CASE variant = "memory" -> MemConfigs
                   [] variant = "supabase" -> SbConfigs
                   [] OTHER -> JwtConfigs)
  /\ now = 0
  /\ challenges = <<>>
  /\ profiles = <<>>
  /\ rows = <<>>
  /\ nrand = 0
  /\ issued = {}
  /\ lastOp = "idle"
  /\ lastArg = NoArg
  /\ lastRet = NoRet

\* A client submits to the in-memory service an event it built for a
\* challenge id it knows of, or for one that was never issued.
MemVerify ==
  /\ lastOp = "idle"
  /\ variant = "memory"
  /\ \E challengeId \in {c.id : c \in issued} \cup {UnknownId}, k \in Keys,
        d \in Deviations :
       MemVerifyChallenge(challengeId,
                          ClientEvent(k, challengeId, ExpectedContent(challengeId), d),
                          FALSE)

\* A client whose verification succeeded makes the same call again.
MemReplay ==
  /\ variant = "memory"
  /\ lastOp = "verifyChallenge"
  /\ ~lastArg.replayed
  /\ lastRet.success
  /\ MemVerifyChallenge(lastArg.challengeId, lastArg.event, TRUE)

\* A client posts to /verify an event embedding a challenge string it was
\* given, or one that was never issued.
SbVerify ==
  /\ lastOp = "idle"
  /\ variant = "supabase"
  /\ \E c \in {i.challenge : i \in issued} \cup {UnknownChallenge}, k \in Keys,
        d \in Deviations :
       \E outcome \in LibVerifyOutcomes(ClientEvent(k, c, c, d)) :
         HandleVerification(ClientEvent(k, c, c, d), outcome, FALSE)

\* A client whose event was accepted posts the same event again.
SbReplay ==
  /\ variant = "supabase"
  /\ lastOp = "verifyChallenge"
  /\ ~lastArg.replayed
  /\ lastRet.success
  /\ \E outcome \in LibVerifyOutcomes(lastArg.event) :
       HandleVerification(lastArg.event, outcome, TRUE)

Next ==
  \/ Tick
  \/ Return
  \/ \E pubkey \in Keys : MemCreateChallenge(pubkey)
  \/ MemVerify
  \/ MemReplay
  \/ \E pubkey \in Keys : SbCreateChallenge(pubkey)
  \/ SbVerify
  \/ SbReplay
  \/ \E pubkey \in Keys, secret \in Secrets, expiresIn \in {"1h", "5m"} :
       GenerateJWT(pubkey, secret, expiresIn)
  \/ \E token \in Tokens, secret \in Secrets : VerifyJWT(token, secret)

Spec == Init /\ [][Next]_vars

-----------------------------------------------------------------------------
(* The HTTP handlers of NostrAuthMiddleware (middleware/nostr-auth.middleware.ts)
   over the in-memory NostrService.  In these behaviours `variant` is "http",
   lastOp names the handler that ran, lastArg holds the request and what the
   service call did, lastRet what the handler did with res. *)

EnrollmentKind == 22243
ENROLLMENT_EXPIRY == 24 * 60 * 60 * 1000

\* undefined where a signed event is expected
NoEvent ==
  [kind |-> 0, created_at |-> 0, tags |-> <<>>, content |-> <<>>, pubkey |-> "",
   id |-> NoId, sig |-> EmptySig]

\* req.body and req.params; "", NoId and NoEvent stand for an absent field
Request(pubkey, challengeId, signedEvent, param) ==
  [body |-> [pubkey |-> pubkey, challengeId |-> challengeId,
             signedEvent |-> signedEvent],
   params |-> [pubkey |-> param]]

\* A JSON body: `has` lists the properties it carries
NoBody ==
  [has |-> {}, error |-> "", message |-> "", success |-> FALSE, pubkey |-> NoPubkey,
   token |-> NoToken, profile |-> NoProfile, challengeId |-> NoId]

ErrorBody(msg) == [NoBody EXCEPT !.has = {"error"}, !.error = msg]

\* res.status(status).json(body), once; res.json(body) alone answers 200
Respond(status, body) ==
  [status |-> status, body |-> body, sent |-> 1, nextCalled |-> FALSE,
   rethrown |-> FALSE]

\* The guard each handler opens with
MissingInputBothAbsent(handler, req) ==
  CASE handler = "handleChallenge" -> req.body.pubkey = ""
    [] handler = "handleVerify" ->
         req.body.challengeId = NoId /\ req.body.signedEvent = NoEvent
    [] handler = "handleEnroll" -> req.body.pubkey = ""
    [] handler = "handleVerifyEnrollment" -> req.body.signedEvent = NoEvent
    [] handler = "handleProfileFetch" -> req.params.pubkey = ""

MissingInput(handler, req) ==
  CASE handler = "handleChallenge" -> req.body.pubkey = ""
    [] handler = "handleVerify" ->
         req.body.challengeId = NoId \/ req.body.signedEvent = NoEvent
    [] handler = "handleEnroll" -> req.body.pubkey = ""
    [] handler = "handleVerifyEnrollment" -> req.body.signedEvent = NoEvent
    [] handler = "handleProfileFetch" -> req.params.pubkey = ""

\* The 400 response of that guard
BadRequest(handler) ==
  Respond(400,
          ErrorBody(CASE handler = "handleChallenge" -> "Missing pubkey"
                      [] handler = "handleVerify" -> "Missing challengeId or signedEvent"
                      [] handler = "handleEnroll" -> "Missing pubkey"
                      [] handler = "handleVerifyEnrollment" -> "Missing signedEvent"
                      [] handler = "handleProfileFetch" -> "Public key is required"))

CaughtForwardsToNext(handler) ==
  [status |-> 0, body |-> NoBody, sent |-> 0, nextCalled |-> TRUE,
   rethrown |-> FALSE]

\* The catch block of each handler
Caught(handler) ==
  Respond(500,
          ErrorBody(CASE handler = "handleChallenge" -> "Failed to create challenge"
                      [] handler = "handleVerify" -> "Failed to verify challenge"
                      [] handler = "handleEnroll" -> "Failed to start enrollment"
                      [] handler = "handleVerifyEnrollment" -> "Failed to verify enrollment"
                      [] handler = "handleProfileFetch" -> "Failed to fetch profile"))

\* What lastArg records of a handler's run: the request, the service methods
\* it called, and how the call ended ("none" | "resolved" | "rejected")
Ran(req, missing, rejects, method, result) ==
  [req |-> req,
   called |-> IF missing THEN <<>> ELSE <<method>>,
   outcome |-> IF missing THEN "none" ELSE IF rejects THEN "rejected" ELSE "resolved",
   result |-> IF missing \/ rejects THEN Fail("message", "") ELSE result]

\* How the service method a handler calls behaves: the class's own method, or
\* a stub that rejects (mockRejectedValueOnce in the middleware's tests)
Stubs == {"own", "rejects"}

\* handleChallenge
HandleChallenge(pubkey, stub) ==
  /\ lastOp = "idle"
  /\ variant = "http"
  /\ (pubkey # "" /\ stub = "own" /\ config.privateKey # "") => nrand < MaxChallenges
  /\ LET req == Request(pubkey, NoId, NoEvent, "")
         missing == MissingInput("handleChallenge", req)
         rejects == stub = "rejects" \/ config.privateKey = ""
         challengeEvent == generateChallenge(pubkey, nrand + 1)
         expiresAt == now + CHALLENGE_EXPIRY
         challenge == [id |-> challengeEvent.id, event |-> challengeEvent,
                       expiresAt |-> expiresAt]
         kept == cleanupExpiredChallenges(challenges)
     IN  /\ lastOp' = "handleChallenge"
         /\ lastArg' = Ran(req, missing, rejects, "createChallenge",
                           Fail("message", ""))
         /\ IF missing
              THEN /\ lastRet' = BadRequest("handleChallenge")
                   /\ UNCHANGED <<challenges, nrand, issued>>
            ELSE IF rejects
              THEN /\ lastRet' = Caught("handleChallenge")
                   /\ UNCHANGED <<challenges, nrand, issued>>
            ELSE /\ challenges' =
                      [id \in DOMAIN kept \cup {challenge.id} |->
                         IF id = challenge.id THEN challenge ELSE kept[id]]
                 /\ nrand' = nrand + 1
                 /\ issued' = issued \cup {[id |-> challenge.id, pubkey |-> pubkey,
                                              expiresAt |-> expiresAt]}
                 /\ lastRet' = Respond(200, [NoBody EXCEPT
                                               !.has = {"event", "challengeId"},
                                               !.challengeId = challenge.id])
  /\ UNCHANGED <<variant, config, now, profiles, rows>>

VerifyResponseForwardsResult(result) ==
  IF result.success
    THEN Respond(200, [NoBody EXCEPT !.has = {"success", "token", "profile"},
                                     !.success = TRUE,
                                     !.token = result.token,
                                     !.profile = result.profile])
    ELSE Respond(401, [NoBody EXCEPT !.has = {"success", "message"},
                                     !.message = result.message])

\* handleVerify: what it sends for the result verifyChallenge resolved with
VerifyResponse(result) ==
  IF result.success
    THEN Respond(200, [NoBody EXCEPT !.has = {"success", "token", "profile"},
                                     !.success = TRUE,
                                     !.token = result.token,
                                     !.profile = result.profile])
    ELSE Respond(401, ErrorBody("Invalid signature"))

\* handleVerify
HandleVerify(challengeId, signedEvent, stub) ==
  /\ lastOp = "idle"
  /\ variant = "http"
  /\ LET req == Request("", challengeId, signedEvent, "")
         missing == MissingInput("handleVerify", req)
         rejects == stub = "rejects"
         result == MemVerifyResult(challengeId, signedEvent)
     IN  /\ lastOp' = "handleVerify"
         /\ lastArg' = Ran(req, missing, rejects, "verifyChallenge", result)
         /\ lastRet' = IF missing THEN BadRequest("handleVerify")
                       ELSE IF rejects THEN Caught("handleVerify")
                       ELSE VerifyResponse(result)
         /\ profiles' =
              IF ~missing /\ ~rejects /\ result.success
                   /\ signedEvent.pubkey \notin DOMAIN profiles
                THEN [k \in DOMAIN profiles \cup {signedEvent.pubkey} |->
                        IF k = signedEvent.pubkey THEN result.profile ELSE profiles[k]]
                ELSE profiles
  /\ UNCHANGED <<variant, config, now, challenges, rows, nrand, issued>>

\* startEnrollment(pubkey): the enrollment it stores under the client's pubkey
startEnrollment(pubkey) ==
  [pubkey |-> ServerPub,
   event |-> [kind |-> EnrollmentKind, created_at |-> NowSec,
              tags |-> << <<"p", pubkey>>, <<"expires_at", NowSec + 300>> >>,
              content |-> <<"Enrollment request">>, pubkey |-> ServerPub,
              id |-> NoId, sig |-> EmptySig],
   createdAt |-> now,
   expiresAt |-> now + ENROLLMENT_EXPIRY]

\* handleEnroll
HandleEnroll(pubkey, stub) ==
  /\ lastOp = "idle"
  /\ variant = "http"
  /\ LET req == Request(pubkey, NoId, NoEvent, "")
         missing == MissingInput("handleEnroll", req)
         rejects == stub = "rejects" \/ config.privateKey = ""
         enrollment == startEnrollment(pubkey)
     IN  /\ lastOp' = "handleEnroll"
         /\ lastArg' = Ran(req, missing, rejects, "startEnrollment",
                           Fail("message", ""))
         /\ IF missing
              THEN lastRet' = BadRequest("handleEnroll") /\ UNCHANGED profiles
            ELSE IF rejects
              THEN lastRet' = Caught("handleEnroll") /\ UNCHANGED profiles
            ELSE /\ profiles' = [k \in DOMAIN profiles \cup {pubkey} |->
                                   IF k = pubkey THEN enrollment ELSE profiles[k]]
                 /\ lastRet' = Respond(200, [NoBody EXCEPT !.has = {"enrollment"},
                                                           !.profile = enrollment])
  /\ UNCHANGED <<variant, config, now, challenges, rows, nrand, issued>>

\* validateEnrollmentEvent(signedEvent) as verifyEnrollment sees it: the
\* validator class of validators/nostr-event.validator.ts has no such method
\* (the call throws a TypeError), other versions of the class answer a boolean
EnrollmentValidatorOutcomes == {"true", "false", "throws"}

\* verifyEnrollment(signedEvent): its result
verifyEnrollment(signedEvent, valid) ==
  IF signedEvent.pubkey \notin DOMAIN profiles
    THEN Fail("message", "No enrollment found")
  ELSE IF valid = "throws"
    THEN Fail("message", "Verification failed")
  ELSE IF valid = "false"
    THEN Fail("message", "Invalid event format or signature")
  ELSE IF config.jwtSecret = ""
    THEN Fail("message", "Verification failed")
  ELSE [Fail("message", "") EXCEPT !.success = TRUE,
                                   !.token = MemGenerateToken(signedEvent.pubkey)]

\* The event a client signs to complete its enrollment
EnrollmentResponse(k) ==
  Signed([kind |-> EnrollmentKind, created_at |-> NowSec,
          tags |-> << <<"p", ServerPub>> >>,
          content |-> <<"Enrollment request">>, pubkey |-> k], k)

\* handleVerifyEnrollment
HandleVerifyEnrollment(signedEvent, valid, stub) ==
  /\ lastOp = "idle"
  /\ variant = "http"
  /\ LET req == Request("", NoId, signedEvent, "")
         missing == MissingInput("handleVerifyEnrollment", req)
         rejects == stub = "rejects"
         result == verifyEnrollment(signedEvent, valid)
     IN  /\ lastOp' = "handleVerifyEnrollment"
         /\ lastArg' = Ran(req, missing, rejects, "verifyEnrollment", result)
         /\ lastRet' =
              IF missing THEN BadRequest("handleVerifyEnrollment")
              ELSE IF rejects THEN Caught("handleVerifyEnrollment")
              ELSE IF ~result.success
                THEN Respond(401, ErrorBody(result.message))
              ELSE Respond(200, [NoBody EXCEPT !.has = {"success", "token"},
                                               !.success = TRUE,
                                               !.token = result.token])
  /\ UNCHANGED <<variant, config, now, challenges, profiles, rows, nrand, issued>>

\* fetchProfile(pubkey) without a Supabase client: the cached entry, or { pubkey }
fetchProfile(pubkey) ==
  IF pubkey \in DOMAIN profiles THEN profiles[pubkey] ELSE [pubkey |-> pubkey]

\* handleProfileFetch
HandleProfileFetch(param, stub) ==
  /\ lastOp = "idle"
  /\ variant = "http"
  /\ LET req == Request("", NoId, NoEvent, param)
         missing == MissingInput("handleProfileFetch", req)
         rejects == stub = "rejects"
     IN  /\ lastOp' = "handleProfileFetch"
         /\ lastArg' = Ran(req, missing, rejects, "fetchProfile",
                           Fail("message", ""))
         /\ lastRet' =
              IF missing THEN BadRequest("handleProfileFetch")
              ELSE IF rejects THEN Caught("handleProfileFetch")
              ELSE Respond(200, [NoBody EXCEPT !.has = {"profile"},
                                               !.profile = fetchProfile(param)])
  /\ UNCHANGED <<variant, config, now, challenges, profiles, rows, nrand, issued>>

\* The NostrAuthConfig handed to createNostrAuth: "" stands for an omitted
\* string, supabase says that supabaseUrl and supabaseKey are both given
Options(privateKey, publicKey, jwtSecret, supabase, keyManagementMode) ==
  [privateKey |-> privateKey, publicKey |-> publicKey, jwtSecret |-> jwtSecret,
   supabase |-> supabase, keyManagementMode |-> keyManagementMode]

\* The configuration of 'should create a valid middleware instance'
ModuleTestOptions == Options("test-private-key", "", "", TRUE, "development")

OptionSets ==
  {Options("test-private-key", pub, secret, TRUE, "development") :
     pub \in {"", ServerPub}, secret \in {"", "s1"}}

\* The two NostrService classes of services/nostr.service.ts
ServiceClasses == {"memory", "supabase"}

\* new NostrService(options): the message of the Error the constructor of the
\* given class throws, "" when it returns
NewNostrService(class, options) ==
  IF class = "memory"
    THEN IF options.publicKey = "" THEN "Server public key not configured" ELSE ""
    ELSE IF options.jwtSecret = "" THEN "JWT secret is required" ELSE ""

\* createNostrAuth(options): new NostrAuthMiddleware(options), whose constructor
\* makes the router, constructs the service and sets up the routes
createNostrAuth(class, options) ==
  LET threw == NewNostrService(class, options)
  IN  [threw |-> threw, instance |-> threw = "", router |-> threw = ""]

\* A caller builds a further middleware with createNostrAuth
CreateNostrAuth(class, options) ==
  /\ lastOp = "idle"
  /\ variant = "http"
  /\ lastOp' = "createNostrAuth"
  /\ lastArg' = [class |-> class, options |-> options]
  /\ lastRet' = createNostrAuth(class, options)
  /\ UNCHANGED <<variant, config, now, challenges, profiles, rows, nrand, issued>>

HttpConfigs ==
  {MemConstructor(c) :
     c \in {RawConfig("s1", "5m", 0, FALSE, "serverpriv"),
            RawConfig("s1", "", 0, FALSE, "")}}

HttpInit ==
  /\ variant = "http"
  /\ config \in HttpConfigs
  /\ now = 0
  /\ challenges = <<>>
  /\ profiles = <<>>
  /\ rows = <<>>
  /\ nrand = 0
  /\ issued = {}
  /\ lastOp = "idle"
  /\ lastArg = NoArg
  /\ lastRet = NoRet

\* The ways the event posted to /verify deviates from the honest one
HttpDeviations == {"none", "sig_other_key", "content_signed"}

\* POST /verify with a challenge id the client was given, an unknown one or
\* none, and a signed event or none
PostVerify ==
  /\ variant = "http"
  /\ \E challengeId \in {c.id : c \in issued} \cup {UnknownId, NoId},
        stub \in Stubs :
       \/ HandleVerify(challengeId, NoEvent, stub)
       \/ \E k \in Keys, d \in HttpDeviations :
            HandleVerify(challengeId,
                         ClientEvent(k, challengeId, ExpectedContent(challengeId), d),
                         stub)

\* Time passes between two requests.
HandlerTick ==
  /\ lastOp = "idle"
  /\ now + TickMs <= HandlerMaxTicks * TickMs
  /\ now' = now + TickMs
  /\ UNCHANGED <<variant, config, challenges, profiles, rows, nrand, issued,
                 lastOp, lastArg, lastRet>>

HttpNext ==
  \/ HandlerTick
  \/ Return
  \/ \E pubkey \in Keys \cup {""}, stub \in Stubs : HandleChallenge(pubkey, stub)
  \/ PostVerify
  \/ \E pubkey \in Keys \cup {""}, stub \in Stubs : HandleEnroll(pubkey, stub)
  \/ \E e \in {EnrollmentResponse(k) : k \in Keys} \cup {NoEvent},
        valid \in EnrollmentValidatorOutcomes, stub \in Stubs :
       HandleVerifyEnrollment(e, valid, stub)
  \/ \E param \in Keys \cup {""}, stub \in Stubs : HandleProfileFetch(param, stub)
  \/ \E class \in ServiceClasses, options \in OptionSets :
       CreateNostrAuth(class, options)

HttpSpec == HttpInit /\ [][HttpNext]_vars

-----------------------------------------------------------------------------
(* handleVerification of the NostrAuthMiddleware that takes its NostrService as
   a constructor argument, over the Supabase-backed service.  lastOp is
   "handleVerification", lastArg the request and the service calls, lastRet
   what the handler did with res and next. *)

\* next(error): nothing is sent
ForwardToNext ==
  [status |-> 0, body |-> NoBody, sent |-> 0, nextCalled |-> TRUE,
   rethrown |-> FALSE]

\* The JSON of a VerificationResult of the Supabase-backed service
ResultBody(result) ==
  [NoBody EXCEPT !.has = IF result.success THEN {"success", "pubkey"}
                         ELSE {"success", "error"},
                 !.success = result.success,
                 !.error = result.error,
                 !.pubkey = result.pubkey]

VerificationResponseAlwaysToken(result) ==
  [called |-> <<"verifyChallenge", "generateToken">>,
   res |-> Respond(IF result.success THEN 200 ELSE 401,
                   [ResultBody(result) EXCEPT
                      !.has = @ \cup {"token"},
                      !.token = SbGenerateToken(result.pubkey)])]

\* What handleVerification does with the result verifyChallenge resolved
\* with: the service methods it has called by then, and its response
VerificationResponse(result) ==
  IF ~result.success
    THEN [called |-> <<"verifyChallenge">>,
          res |-> Respond(401, ResultBody(result))]
  ELSE IF result.pubkey # NoPubkey
    THEN [called |-> <<"verifyChallenge", "generateToken">>,
          res |-> Respond(200, [ResultBody(result) EXCEPT
                                  !.has = @ \cup {"token"},
                                  !.token = SbGenerateToken(result.pubkey)])]
  ELSE [called |-> <<"verifyChallenge">>,
        res |-> Respond(200, ResultBody(result))]

\* handleVerification on req.body.event, the signature primitive having the
\* given outcome and verifyChallenge being the class's own or a rejecting stub
HandleVerificationRequest(event, outcome, stub) ==
  /\ lastOp = "idle"
  /\ variant = "supabase"
  /\ LET missing == event = NoEvent
         rejects == stub = "rejects"
         r == SbVerifyChallenge(event, outcome)
         result == r[1]
         answer == VerificationResponse(result)
     IN  /\ lastOp' = "handleVerification"
         /\ lastArg' = [event |-> event,
                        called |-> IF missing THEN <<>>
                                   ELSE IF rejects THEN <<"verifyChallenge">>
                                   ELSE answer.called,
                        outcome |-> IF missing THEN "none"
                                    ELSE IF rejects THEN "rejected" ELSE "resolved",
                        result |-> IF missing \/ rejects THEN Fail("error", "")
                                   ELSE result]
         /\ lastRet' = IF missing THEN Respond(400, ErrorBody("Missing event"))
                       ELSE IF rejects THEN ForwardToNext
                       ELSE answer.res
         /\ rows' = IF missing \/ rejects THEN rows ELSE r[2]
  /\ UNCHANGED <<variant, config, now, challenges, profiles, nrand, issued>>

\* The ways the event posted to /verify deviates from the honest one
PostedDeviations == {"none", "sig_other_key", "content_signed", "id_empty"}

\* POST /verify with an event embedding a challenge string the client was
\* given or one that was never issued, or with no event
PostEvent ==
  /\ variant = "supabase"
  /\ \E stub \in Stubs :
       \/ HandleVerificationRequest(NoEvent, "false", stub)
       \/ \E c \in {i.challenge : i \in issued} \cup {UnknownChallenge},
             k \in Keys, d \in PostedDeviations :
            \E outcome \in LibVerifyOutcomes(ClientEvent(k, c, c, d)) :
              HandleVerificationRequest(ClientEvent(k, c, c, d), outcome, stub)

InjectedInit == Init /\ variant = "supabase"

InjectedNext ==
  \/ HandlerTick
  \/ Return
  \/ \E pubkey \in Keys : SbCreateChallenge(pubkey)
  \/ PostEvent

InjectedSpec == InjectedInit /\ [][InjectedNext]_vars

-----------------------------------------------------------------------------
(* NostrEventValidator.validateEvent, in its two versions: the class at the end
   of validators/event.validator.ts ("full") and the one of part_010 ("shape").
   Here `tags` is a JSON value that knows whether it is an array. *)

JsonArray(items) == [array |-> TRUE, items |-> items]
NotAnArray == [array |-> FALSE, items |-> <<>>]

\* An id that is not 64 hex digits
GarbageId == [NoId EXCEPT !.pubkey = "zz"]

\* sha256(Uint8Array.from(Buffer.from(event.id, 'hex')))
Sha256OfId(id) ==
  [pubkey |-> "sha256", created_at |-> 0, kind |-> 0, tags |-> <<id>>, content |-> <<>>]

TimestampTooFarInclusive(created_at, nowS) ==
  created_at >= nowS + MAX_TIMESTAMP_DIFF \/ created_at <= nowS - MAX_TIMESTAMP_DIFF

\* event.created_at > now + 300 || event.created_at < now - 300
TimestampTooFar(created_at, nowS) ==
  created_at > nowS + MAX_TIMESTAMP_DIFF \/ created_at < nowS - MAX_TIMESTAMP_DIFF

\* Some entry of tags fails Array.isArray(tag) && tag.length >= 2
SomeTagMalformed(tags) ==
  \E i \in 1..Len(tags.items) :
    ~tags.items[i].array \/ Len(tags.items[i].items) < 2

Verdict(valid, warned) == [valid |-> valid, warned |-> warned]

\* validateEvent(event) of the given version: its answer and what it logged
ValidatorValidateEvent(version, event) ==
  IF event.id = NoId \/ event.pubkey = "" \/ event.sig = EmptySig
       \/ event.kind = 0 \/ event.created_at = 0
    THEN Verdict(FALSE, "Missing required fields in event")
  ELSE IF version = "full" /\ ~IsHex64(event.pubkey)
    THEN Verdict(FALSE, "Invalid pubkey format")
  ELSE IF version = "full" /\ ~IsHex128(event.sig)
    THEN Verdict(FALSE, "Invalid signature format")
  ELSE IF version = "full" /\ event.id = GarbageId
    THEN Verdict(FALSE, "Invalid event ID format")
  ELSE IF TimestampTooFar(event.created_at, NowSec)
    THEN Verdict(FALSE, "Event timestamp is too far from current time")
  ELSE IF ~event.tags.array
    THEN Verdict(FALSE, "Invalid tags format")
  ELSE IF SomeTagMalformed(event.tags)
    THEN Verdict(FALSE, "Invalid tag format")
  ELSE IF version = "full" /\ generateEventHash(event) # event.id
    THEN Verdict(FALSE, "Event hash verification failed")
  ELSE IF version = "full"
            /\ ~verifySignature(event.sig, Sha256OfId(event.id), event.pubkey)
    THEN Verdict(FALSE, "Event signature verification failed")
  ELSE Verdict(TRUE, "")

ValidatorVersions == {"full", "shape"}

\* created_at values around the window, as offsets from the server's second
Offsets == {0 - 301, 0 - 300, 0 - 299, 0, 299, 300, 301}

TagShapes ==
  {JsonArray(<<>>),
   JsonArray(<<JsonArray(<<"challenge", "c">>)>>),
   JsonArray(<<JsonArray(<<"challenge">>)>>),
   JsonArray(<<NotAnArray>>),
   JsonArray(<<JsonArray(<<"challenge", "c">>), JsonArray(<<>>)>>),
   NotAnArray}

\* How the submitted event was signed and identified
Signings == {"id", "digest", "other_key", "unsigned", "garbage_id"}

\* The events handed to the validator
ShapedEvent(k, created_at, kind, tags, signing) ==
  LET e == Signed([kind |-> kind, created_at |-> created_at, tags |-> tags,
                   content |-> <<"nostr-auth:", 1>>, pubkey |-> k], k)
  IN  CASE signing = "id" -> e
        [] signing = "digest" -> [e EXCEPT !.sig = SchnorrSign(Sha256OfId(e.id), k)]
        [] signing = "other_key" ->
             [e EXCEPT !.sig = SchnorrSign(Sha256OfId(e.id), OtherKey(k))]
        [] signing = "unsigned" -> [e EXCEPT !.sig = EmptySig]
        [] signing = "garbage_id" -> [e EXCEPT !.id = GarbageId]

\* validateEvent(event) called
ValidateEvent(version, event) ==
  /\ lastOp = "idle"
  /\ variant = "validator"
  /\ lastOp' = "validateEvent"
  /\ lastArg' = [version |-> version, event |-> event]
  /\ lastRet' = ValidatorValidateEvent(version, event)
  /\ UNCHANGED <<variant, config, now, challenges, profiles, rows, nrand, issued>>

ValidatorInit ==
  /\ variant = "validator"
  /\ config \in JwtConfigs
  /\ now \in {ClockStartMs, ClockStartMs + 999}
  /\ challenges = <<>>
  /\ profiles = <<>>
  /\ rows = <<>>
  /\ nrand = 0
  /\ issued = {}
  /\ lastOp = "idle"
  /\ lastArg = NoArg
  /\ lastRet = NoRet

ValidatorNext ==
  \/ Return
  \/ \E version \in ValidatorVersions, offset \in Offsets, missing \in BOOLEAN,
        kind \in {ChallengeKind, 0}, tags \in TagShapes, signing \in Signings :
       ValidateEvent(version,
                     ShapedEvent("alice", IF missing THEN 0 ELSE NowSec + offset,
                                 kind, tags, signing))

ValidatorSpec == ValidatorInit /\ [][ValidatorNext]_vars

-----------------------------------------------------------------------------
(* The server (server.ts) and its security middleware (part_025).  Here
   `config` is process.env, a string is the sequence of its characters, lastArg
   the request and lastRet what the middleware chain did with it.  The route
   handlers themselves are those of NostrAuthMiddleware; of them this part
   records only which one ran. *)

Chars == {"a", ","}

\* The strings of at most n characters
Strings(n) == UNION {[1..k -> Chars] : k \in 0..n}

\* An environment variable or header: a string, or undefined
Undefined == [set |-> FALSE, value |-> <<>>]
Defined(s) == [set |-> TRUE, value |-> s]

\* s.split(','): the pieces between the commas, in order
RECURSIVE Split(_)
Split(s) ==
  IF \A i \in 1..Len(s) : s[i] # ","
    THEN <<s>>
    ELSE LET i == CHOOSE j \in 1..Len(s) :
                    s[j] = "," /\ \A h \in 1..(j - 1) : s[h] # ","
         IN  <<SubSeq(s, 1, i - 1)>> \o Split(SubSeq(s, i + 1, Len(s)))

\* list.includes(x)
Includes(list, x) == \E i \in 1..Len(list) : list[i] = x

\* list.filter(Boolean) on a list of strings
FilterNonEmpty(list) == SelectSeq(list, LAMBDA x : x # <<>>)

RejectsApiKeyUnlessPresentAndWrong(apiKey, env) ==
  LET validApiKeys == IF env.API_KEYS.set THEN Split(env.API_KEYS.value) ELSE <<>>
  IN  apiKey.set /\ apiKey.value # <<>> /\ ~Includes(validApiKeys, apiKey.value)

\* validateApiKey: whether it answers 401 instead of calling next()
RejectsApiKey(apiKey, env) ==
  LET validApiKeys == IF env.API_KEYS.set THEN Split(env.API_KEYS.value) ELSE <<>>
  IN  ~apiKey.set \/ apiKey.value = <<>> \/ ~Includes(validApiKeys, apiKey.value)

RejectsIpWithoutFilter(ip, env) ==
  LET allowedIPs == IF env.ALLOWED_IPS.set
                      THEN Split(env.ALLOWED_IPS.value)
                      ELSE <<>>
  IN  /\ Len(allowedIPs) # 0
      /\ (~ip.set \/ ip.value = <<>> \/ ~Includes(allowedIPs, ip.value))

\* ipWhitelist: whether it answers 403 instead of calling next()
RejectsIp(ip, env) ==
  LET allowedIPs == IF env.ALLOWED_IPS.set
                      THEN FilterNonEmpty(Split(env.ALLOWED_IPS.value))
                      ELSE <<>>
  IN  /\ Len(allowedIPs) # 0
      /\ (~ip.set \/ ip.value = <<>> \/ ~Includes(allowedIPs, ip.value))

\* The routes of the router mounted at /auth/nostr, and the other paths
AuthRoutes ==
  {[method |-> "POST", path |-> "/auth/nostr/challenge", handler |-> "handleChallenge"],
   [method |-> "POST", path |-> "/auth/nostr/verify", handler |-> "handleVerify"],
   [method |-> "POST", path |-> "/auth/nostr/enroll", handler |-> "handleEnroll"],
   [method |-> "POST", path |-> "/auth/nostr/enroll/verify",
    handler |-> "handleVerifyEnrollment"],
   [method |-> "GET", path |-> "/auth/nostr/profile/alice",
    handler |-> "handleProfileFetch"]}

AuthPaths == {r.path : r \in AuthRoutes} \cup {"/auth/nostr/nothing"}
Paths == AuthPaths \cup {"/health", "/other"}
Methods == {"GET", "POST"}

\* What the chain did: the response, the route handler that ran ("none" when
\* none did) and whether validateApiKey was reached and called next()
Outcome(status, error, ran, keyChecked, keyNext) ==
  [status |-> status, error |-> error, sent |-> 1, ran |-> ran,
   keyChecked |-> keyChecked, keyNext |-> keyNext]

\* The middleware chain of server.ts on one request; limited says that the
\* rate limiter has counted too many requests from the client
Serve(req, limited, env) ==
  IF RejectsIp(req.ip, env)
    THEN Outcome(403, "Access denied", "none", FALSE, FALSE)
  ELSE IF limited
    THEN Outcome(429, "Too many requests, please try again later", "none",
                 FALSE, FALSE)
  ELSE IF req.method = "GET" /\ req.path = "/health"
    THEN Outcome(200, "", "health", FALSE, FALSE)
  ELSE IF req.path \in AuthPaths
    THEN IF RejectsApiKey(req.apiKey, env)
           THEN Outcome(401, "Invalid API key", "none", TRUE, FALSE)
         ELSE IF \E r \in AuthRoutes : r.method = req.method /\ r.path = req.path
           THEN Outcome(200, "",
                        (CHOOSE r \in AuthRoutes :
                           r.method = req.method /\ r.path = req.path).handler,
                        TRUE, TRUE)
         ELSE Outcome(404, "", "none", TRUE, TRUE)
  ELSE Outcome(404, "", "none", FALSE, FALSE)

\* A request reaches the server
ServerRequest(req, limited) ==
  /\ lastOp = "idle"
  /\ variant = "server"
  /\ lastOp' = "request"
  /\ lastArg' = [req |-> req, limited |-> limited]
  /\ lastRet' = Serve(req, limited, config)
  /\ UNCHANGED <<variant, config, now, challenges, profiles, rows, nrand, issued>>

Headers == {Undefined} \cup {Defined(s) : s \in Strings(MaxHeaderLen)}
ClientIps == {Undefined, Defined(<<"a">>), Defined(<<"a", "a">>)}

AllowedIpsValues ==
  {Undefined, Defined(<<>>), Defined(<<",">>), Defined(<<"a">>),
   Defined(<<"a", ",", "a", "a">>)}

ServerInit ==
  /\ variant = "server"
  /\ config \in [API_KEYS : {Undefined} \cup {Defined(s) : s \in Strings(MaxEnvLen)},
                 ALLOWED_IPS : AllowedIpsValues]
  /\ now = 0
  /\ challenges = <<>>
  /\ profiles = <<>>
  /\ rows = <<>>
  /\ nrand = 0
  /\ issued = {}
  /\ lastOp = "idle"
  /\ lastArg = NoArg
  /\ lastRet = NoRet

ServerNext ==
  \/ Return
  \/ \E method \in Methods, path \in Paths, apiKey \in Headers, ip \in ClientIps,
        limited \in BOOLEAN :
       ServerRequest([method |-> method, path |-> path, apiKey |-> apiKey,
                      ip |-> ip], limited)

ServerSpec == ServerInit /\ [][ServerNext]_vars

-----------------------------------------------------------------------------
(* NostrBrowserAuth (part_011, first class).  Here `config` is the browser's
   window: whether a NIP-07 extension is there, the key it holds and how its
   getPublicKey() behaves. *)

GetPublicKeyModes == {"resolves", "rejects", "throws", "pending"}

Window(nostr, pubkey, getPublicKey) ==
  [nostr |-> nostr, pubkey |-> pubkey, getPublicKey |-> getPublicKey]

NoExtension == Window(FALSE, "", "resolves")

Windows ==
  {NoExtension}
    \cup {Window(TRUE, k, m) : k \in Keys \cup {""}, m \in GetPublicKeyModes}

\* The session argument: null, or an object with a pubkey
NoSession == [given |-> FALSE, pubkey |-> ""]
Session(pubkey) == [given |-> TRUE, pubkey |-> pubkey]
Sessions == {NoSession} \cup {Session(k) : k \in Keys \cup {""}}

\* What an async method did: resolved with a value, rejected, or is still
\* waiting for the extension
Resolved(value) == [settled |-> TRUE, threw |-> FALSE, value |-> value]
Rejected(message) == [settled |-> TRUE, threw |-> TRUE, value |-> message]
Pending == [settled |-> FALSE, threw |-> FALSE, value |-> FALSE]

validateSessionRethrows(window, session) ==
  IF ~window.nostr \/ ~session.given \/ session.pubkey = ""
    THEN Resolved(FALSE)
  ELSE CASE window.getPublicKey = "pending" -> Pending
         [] window.getPublicKey = "resolves" ->
              Resolved(window.pubkey = session.pubkey)
         [] OTHER -> Rejected("getPublicKey failed")

\* NostrBrowserAuth.validateSession
validateSession(window, session) ==
  IF ~window.nostr \/ ~session.given \/ session.pubkey = ""
    THEN Resolved(FALSE)
  ELSE CASE window.getPublicKey = "pending" -> Pending
         [] window.getPublicKey = "resolves" ->
              Resolved(window.pubkey = session.pubkey)
         [] OTHER -> Resolved(FALSE)

ValidateSession(session) ==
  /\ lastOp = "idle"
  /\ variant = "browser"
  /\ lastOp' = "validateSession"
  /\ lastArg' = [session |-> session]
  /\ lastRet' = validateSession(config, session)
  /\ UNCHANGED <<variant, config, now, challenges, profiles, rows, nrand, issued>>

SignEventOutcomes == {"resolves", "rejects"}

\* NostrBrowserAuth.authenticate (with createChallenge); n is the random
\* challenge, signEvent how the extension answers the signing request
authenticate(window, n, signEvent) ==
  IF ~window.nostr
    THEN Rejected("Nostr extension not found. Please install a Nostr extension like nos2x or Alby.")
  ELSE CASE window.getPublicKey = "pending" -> Pending
         [] window.getPublicKey \in {"rejects", "throws"} ->
              Rejected("getPublicKey failed")
         [] OTHER ->
              IF signEvent = "rejects"
                THEN Rejected("signEvent failed")
                ELSE LET event == [kind |-> ChallengeKind, created_at |-> NowSec,
                                   content |-> <<"Sign this message to authenticate: ", n>>,
                                   tags |-> <<<<"p", window.pubkey>>,
                                              <<"challenge", n>>>>,
                                   pubkey |-> window.pubkey]
                     IN  Resolved([pubkey |-> window.pubkey, timestamp |-> now,
                                   challenge |-> n,
                                   signedEvent |-> Signed(event, window.pubkey)])

Authenticate(signEvent) ==
  /\ lastOp = "idle"
  /\ variant = "browser"
  /\ LET drawn == config.nostr /\ config.getPublicKey = "resolves"
     IN  /\ drawn => nrand < MaxChallenges
         /\ nrand' = IF drawn THEN nrand + 1 ELSE nrand
         /\ lastRet' = authenticate(config, nrand + 1, signEvent)
  /\ lastOp' = "authenticate"
  /\ lastArg' = [signEvent |-> signEvent]
  /\ UNCHANGED <<variant, config, now, challenges, profiles, rows, issued>>

BrowserInit ==
  /\ variant = "browser"
  /\ config \in Windows
  /\ now = 0
  /\ challenges = <<>>
  /\ profiles = <<>>
  /\ rows = <<>>
  /\ nrand = 0
  /\ issued = {}
  /\ lastOp = "idle"
  /\ lastArg = NoArg
  /\ lastRet = NoRet

BrowserNext ==
  \/ HandlerTick
  \/ Return
  \/ \E session \in Sessions : ValidateSession(session)
  \/ \E signEvent \in SignEventOutcomes : Authenticate(signEvent)

BrowserSpec == BrowserInit /\ [][BrowserNext]_vars

-----------------------------------------------------------------------------
(* API key utilities (api-key.utils.ts).  A string is the sequence of its
   characters; lastArg and lastRet hold a call's arguments and result. *)

\* s.split(sep)
RECURSIVE SplitOn(_, _)
SplitOn(s, sep) ==
  IF \A i \in 1..Len(s) : s[i] # sep
    THEN <<s>>
    ELSE LET i == CHOOSE j \in 1..Len(s) :
                    s[j] = sep /\ \A h \in 1..(j - 1) : s[h] # sep
         IN  <<SubSeq(s, 1, i - 1)>> \o SplitOn(SubSeq(s, i + 1, Len(s)), sep)

DigitChars == <<"0", "1", "2", "3", "4", "5", "6", "7", "8", "9">>

\* Number.prototype.toString() of a non-negative integer
RECURSIVE NumberToString(_)
NumberToString(n) ==
  IF n < 10 THEN <<DigitChars[n + 1]>>
  ELSE NumberToString(n \div 10) \o <<DigitChars[(n % 10) + 1]>>

\* createHash('sha256').update(data).digest('hex'): a string of hex digits
\* that names its input; the digits are those of the input's characters
HexOfChar(c) ==
  CASE c = "_" -> <<"5", "f">>
    [] c = ":" -> <<"3", "a">>
    [] c = "u" -> <<"7", "5">>
    [] c = "s" -> <<"7", "3">>
    [] OTHER -> <<"3", c>>

RECURSIVE Sha256Hex(_)
Sha256Hex(data) ==
  IF data = <<>> THEN <<>> ELSE HexOfChar(Head(data)) \o Sha256Hex(Tail(data))

\* generateApiKeyForUser at Date.now() = t
generateApiKeyForUser(userId, secret, t) ==
  LET timestamp == NumberToString(t)
      data == userId \o <<":">> \o timestamp \o <<":">> \o secret
      hash == Sha256Hex(data)
  IN  userId \o <<"_">> \o timestamp \o <<"_">> \o hash

\* parseApiKey's null
NoParts == [ok |-> FALSE, userId |-> <<>>, timestamp |-> <<>>, hash |-> <<>>]

\* parseApiKey
parseApiKey(apiKey) ==
  LET parts == SplitOn(apiKey, "_")
  IN  IF Len(parts) # 3 THEN NoParts
      ELSE IF parts[1] = <<>> \/ parts[2] = <<>> \/ parts[3] = <<>> THEN NoParts
      ELSE [ok |-> TRUE, userId |-> parts[1], timestamp |-> parts[2],
            hash |-> parts[3]]

\* isValidApiKeyFormat
isValidApiKeyFormat(apiKey) == parseApiKey(apiKey) # NoParts

UserIdChars == {"u", "_"}
UserIds == UNION {[1..k -> UserIdChars] : k \in 1..MaxUserIdLen}
ApiKeySecrets == {<<"s">>, <<"s", "_">>}
ApiKeyChars == {"u", "_"}
ApiKeys == UNION {[1..k -> ApiKeyChars] : k \in 0..MaxApiKeyLen}

\* A key is generated for a user and parsed again
ParseGenerated(userId, secret) ==
  /\ lastOp = "idle"
  /\ variant = "apikey"
  /\ lastOp' = "parseGenerated"
  /\ lastArg' = [userId |-> userId, secret |-> secret,
                 apiKey |-> generateApiKeyForUser(userId, secret, now)]
  /\ lastRet' = parseApiKey(generateApiKeyForUser(userId, secret, now))
  /\ UNCHANGED <<variant, config, now, challenges, profiles, rows, nrand, issued>>

\* A key from elsewhere is checked
IsValidApiKeyFormat(apiKey) ==
  /\ lastOp = "idle"
  /\ variant = "apikey"
  /\ lastOp' = "isValidApiKeyFormat"
  /\ lastArg' = [apiKey |-> apiKey]
  /\ lastRet' = [valid |-> isValidApiKeyFormat(apiKey)]
  /\ UNCHANGED <<variant, config, now, challenges, profiles, rows, nrand, issued>>

ApiKeyInit ==
  /\ variant = "apikey"
  /\ config \in JwtConfigs
  /\ now = 0
  /\ challenges = <<>>
  /\ profiles = <<>>
  /\ rows = <<>>
  /\ nrand = 0
  /\ issued = {}
  /\ lastOp = "idle"
  /\ lastArg = NoArg
  /\ lastRet = NoRet

ApiKeyNext ==
  \/ HandlerTick
  \/ Return
  \/ \E userId \in UserIds, secret \in ApiKeySecrets : ParseGenerated(userId, secret)
  \/ \E apiKey \in ApiKeys : IsValidApiKeyFormat(apiKey)

ApiKeySpec == ApiKeyInit /\ [][ApiKeyNext]_vars

-----------------------------------------------------------------------------
(* Overlapping verifyChallenge calls of the Supabase-backed service.  While
   such calls are in flight lastOp is "verifying", lastArg maps each call to
   its position, event and the row its lookup returned, and lastRet maps it to
   its result.  A call is suspended at each awaited storage call, so the
   lookup with the checks that follow it is one step and the delete with the
   return that follows it another. *)

Calls == {1, 2}

NoRow == [id |-> 0, challenge |-> UnknownChallenge, created_at |-> 0,
          expires_at |-> 0, pubkey |-> ""]

NoCall == [pc |-> "idle", event |-> NoEvent, data |-> NoRow]
NoResult == Fail("error", "")
Success(pubkey) == [Fail("error", "") EXCEPT !.success = TRUE, !.pubkey = pubkey]

\* The calls in flight and their results
InFlight == IF lastOp = "verifying" THEN lastArg ELSE [c \in Calls |-> NoCall]
Results == IF lastOp = "verifying" THEN lastRet ELSE [c \in Calls |-> NoResult]

\* verifyChallenge up to its await of the delete: validateEvent, the lookup,
\* and the checks on the row it returned
VerifyLookup(c, event, outcome) ==
  /\ variant = "supabase"
  /\ lastOp \in {"idle", "verifying"}
  /\ InFlight[c].pc = "idle"
  /\ LET validationResult == validateEvent(event, outcome)
         matching == SelectByPubkey(event.pubkey)
         done(result) ==
           /\ lastArg' = [InFlight EXCEPT ![c] = [pc |-> "done", event |-> event,
                                                  data |-> NoRow]]
           /\ lastRet' = [Results EXCEPT ![c] = result]
     IN  IF ~validationResult.success
           THEN done(validationResult)
         ELSE IF ~config.supabase
           THEN done(Success(event.pubkey))
         ELSE IF Len(matching) # 1
           THEN done(Fail("error", "Challenge not found"))
         ELSE IF matching[1].expires_at < NowSec
           THEN done(Fail("error", "Challenge expired"))
         ELSE /\ lastArg' = [InFlight EXCEPT ![c] = [pc |-> "deleting",
                                                     event |-> event,
                                                     data |-> matching[1]]]
              /\ lastRet' = Results
  /\ lastOp' = "verifying"
  /\ UNCHANGED <<variant, config, now, challenges, profiles, rows, nrand, issued>>

\* The awaited delete runs and verifyChallenge returns success
VerifyDelete(c) ==
  /\ variant = "supabase"
  /\ lastOp = "verifying"
  /\ lastArg[c].pc = "deleting"
  /\ rows' = DeleteById(lastArg[c].data.id)
  /\ lastArg' = [lastArg EXCEPT ![c].pc = "done"]
  /\ lastRet' = [lastRet EXCEPT ![c] = Success(lastArg[c].event.pubkey)]
  /\ UNCHANGED <<variant, config, now, challenges, profiles, nrand, issued, lastOp>>

\* A client starts a call with an event for a challenge string it was given
ClientVerifies ==
  \E c \in Calls, ch \in {i.challenge : i \in issued}, k \in Keys,
     d \in {"none", "sig_other_key"} :
    \E outcome \in LibVerifyOutcomes(ClientEvent(k, ch, ch, d)) :
      VerifyLookup(c, ClientEvent(k, ch, ch, d), outcome)

\* The results are taken once no call is suspended
Settle ==
  /\ lastOp = "verifying" => \A c \in Calls : lastArg[c].pc # "deleting"
  /\ Return

ConcurrentInit == Init /\ variant = "supabase"

ConcurrentNext ==
  \/ HandlerTick
  \/ Settle
  \/ \E pubkey \in Keys : SbCreateChallenge(pubkey)
  \/ ClientVerifies
  \/ \E c \in Calls : VerifyDelete(c)

ConcurrentSpec == ConcurrentInit /\ [][ConcurrentNext]_vars

-----------------------------------------------------------------------------
(* Properties *)

IsVerify == lastOp = "verifyChallenge"
Mem == variant = "memory"
Sb == variant = "supabase"

\* C1: in the in-memory service a verifyChallenge for a challenge id that a
\* verification has already succeeded for returns success:false and no token.
C1_ConsumedAtMostOnce ==
  (Mem /\ IsVerify /\ lastArg.replayed) =>
    (~lastRet.success /\ lastRet.token = NoToken)

\* C2: in the in-memory service a verifyChallenge made after the challenge's
\* expiresAt returns success:false and no token.
C2_ExpiredRejected ==
  (Mem /\ IsVerify) =>
    \A c \in issued :
      (c.id = lastArg.challengeId /\ now > c.expiresAt) =>
        (~lastRet.success /\ lastRet.token = NoToken)

\* C3: in the in-memory service verifyChallenge rejects an event whose id is
\* not the hash of its [0, pubkey, created_at, kind, tags, content].
C3_TamperedRejected ==
  (Mem /\ IsVerify /\ lastArg.event.id # generateEventHash(lastArg.event)) =>
    ~lastRet.success

\* C4: in both services verifyChallenge succeeds, and a token is handed back,
\* only if the signature primitive answered true for the submitted event.
C4_SuccessNeedsSignature ==
  (IsVerify /\ (lastRet.success \/ lastRet.token # NoToken)) =>
    lastArg.sigcheck = "true"

C4_Witness ==
  /\ Sb /\ IsVerify
  /\ lastRet.success /\ lastRet.token # NoToken
  /\ lastArg.sigcheck = "true"

\* C5: in the Supabase-backed service, whatever the configuration,
\* verifyChallenge succeeds only for a pubkey createChallenge was called for.
C5_SuccessNeedsIssuedChallenge ==
  (Sb /\ IsVerify /\ lastRet.success) =>
    \E c \in issued : c.pubkey = lastArg.event.pubkey

EmbedsChallenge(event, challenge) ==
  \/ event.content = challenge
  \/ \E i \in 1..Len(event.tags) : event.tags[i] = <<"challenge", challenge>>

\* C6: in the Supabase-backed service with a client configured,
\* verifyChallenge succeeds only if the event's content or challenge tag is a
\* challenge string createChallenge returned for the event's pubkey.
C6_EmbedsIssuedChallenge ==
  (Sb /\ config.supabase /\ IsVerify /\ lastRet.success) =>
    \E c \in issued :
      c.pubkey = lastArg.event.pubkey /\ EmbedsChallenge(lastArg.event, c.challenge)

C8_ExpiredExactlyWhenPast ==
  (Sb /\ config.supabase /\ IsVerify) =>
    LET valid == validateEvent(lastArg.event, lastArg.sigcheck).success
        st == lastArg.stored
    IN  /\ (lastRet.error = "Challenge expired") =
             (valid /\ Len(st) = 1 /\ st[1].expires_at < NowSec)
        /\ (lastRet.error = "Challenge expired") => rows = lastArg.rowsBefore
        /\ (valid /\ Len(st) = 1 /\ st[1].expires_at = NowSec) => lastRet.success

C8_Witness ==
  /\ Sb /\ config.supabase /\ IsVerify
  /\ lastRet.error = "Challenge expired"
  /\ Len(SelectByPubkey(lastArg.event.pubkey)) = 1

\* C9: the token of a successful verification carries the pubkey of the
\* verified event, and verifyJWT with the server secret returns that pubkey
\* at every time before the token's exp.
C9_TokenCarriesVerifiedPubkey ==
  (IsVerify /\ lastRet.success) =>
    /\ lastRet.token # NoToken
    /\ lastRet.token.payload.pubkey = lastArg.event.pubkey
    /\ \A t \in TickTimes :
         (NowSec <= t /\ t < lastRet.token.payload.exp) =>
           LET r == verifyJWTAt(lastRet.token, config.jwtSecret, t)
           IN  r.threw = "" /\ r.pubkey = lastArg.event.pubkey

C9_Witness ==
  /\ Mem /\ IsVerify /\ lastRet.success
  /\ lastRet.token.payload.pubkey = "bob"
  /\ \E t \in TickTimes : NowSec < t /\ t < lastRet.token.payload.exp

\* C10: verifyJWT throws Error('Invalid JWT') and returns no pubkey when the
\* token's exp is reached, the token was signed with another secret, or the
\* token is no JWT.
C10_InvalidJwtThrows ==
  (lastOp = "verifyJWT"
     /\ (\/ lastArg.token.fmt # "jwt"
         \/ lastArg.token.mac # lastArg.secret
         \/ NowSec >= lastArg.token.payload.exp)) =>
    (lastRet.threw = "Invalid JWT" /\ lastRet.pubkey = "")

C10_Witness ==
  /\ lastOp = "verifyJWT"
  /\ lastArg.token.fmt = "jwt"
  /\ lastArg.token.mac = lastArg.secret
  /\ NowSec >= lastArg.token.payload.exp
  /\ lastRet.threw = "Invalid JWT"

\* C11: in the in-memory service with a JWT secret, verifyChallenge(id, e) made
\* before the expiry of a challenge createChallenge(pubkey) returned, with e the
\* event an honest client signs with that pubkey (kind 22242, tag
\* ['challenge', id], content 'nostr:auth:' + id), returns success:true with a
\* token and a profile.
C11_HonestClientAuthenticates ==
  (Mem /\ IsVerify /\ config.jwtSecret # "") =>
    \A c \in issued :
      (/\ lastArg.challengeId = c.id
       /\ now < c.expiresAt
       /\ lastArg.event = ClientEvent(c.pubkey, c.id, <<"nostr:auth:", c.id>>, "none")) =>
        /\ lastRet.success
        /\ lastRet.token # NoToken
        /\ lastRet.profile # NoProfile

C11_Witness ==
  /\ Mem /\ IsVerify /\ config.jwtSecret # ""
  /\ nrand = 2
  /\ \E c \in issued :
       /\ lastArg.challengeId = c.id
       /\ now > 0 /\ now < c.expiresAt
       /\ c.expiresAt = CHALLENGE_EXPIRY
       /\ lastArg.event = ClientEvent(c.pubkey, c.id, <<"nostr:auth:", c.id>>, "none")
  /\ lastRet.success /\ lastRet.token # NoToken /\ lastRet.profile # NoProfile

HttpRan(handler) == variant = "http" /\ lastOp = handler

LacksRequiredInput ==
  \/ lastOp = "handleChallenge" /\ lastArg.req.body.pubkey = ""
  \/ lastOp = "handleVerify" /\ (\/ lastArg.req.body.challengeId = NoId
                                 \/ lastArg.req.body.signedEvent = NoEvent)
  \/ lastOp = "handleEnroll" /\ lastArg.req.body.pubkey = ""
  \/ lastOp = "handleVerifyEnrollment" /\ lastArg.req.body.signedEvent = NoEvent
  \/ lastOp = "handleProfileFetch" /\ lastArg.req.params.pubkey = ""

\* C13: a run of handleChallenge, handleVerify, handleEnroll,
\* handleVerifyEnrollment or handleProfileFetch on a request that lacks its
\* required input sends exactly one response, with status 400, calls no
\* NostrService method, and leaves the challenges and the profiles (which hold
\* the enrollments) as they were.
C13_MissingInputIs400 ==
  [][(variant = "http" /\ lastOp = "idle" /\ LacksRequiredInput') =>
       /\ lastRet'.status = 400
       /\ lastRet'.sent = 1
       /\ lastRet'.body.has = {"error"}
       /\ ~lastRet'.nextCalled
       /\ lastArg'.called = <<>>
       /\ UNCHANGED <<challenges, profiles, nrand, issued>>]_vars

C13_Witness ==
  /\ HttpRan("handleVerify")
  /\ lastArg.req.body.challengeId \in DOMAIN challenges
  /\ lastArg.req.body.signedEvent = NoEvent
  /\ lastRet.status = 400
  /\ lastRet.body.error = "Missing challengeId or signedEvent"
  /\ lastArg.called = <<>>

\* C14: when the NostrService method called by handleChallenge, handleVerify
\* or handleProfileFetch rejects, the handler sends exactly one response, with
\* status 500 and only its fixed error message, and neither rethrows nor calls
\* next.
C14_RejectionIs500 ==
  (/\ variant = "http"
   /\ lastOp \in {"handleChallenge", "handleVerify", "handleProfileFetch"}
   /\ lastArg.outcome = "rejected") =>
    /\ lastOp = "handleChallenge" =>
         lastRet.body = ErrorBody("Failed to create challenge")
    /\ lastOp = "handleVerify" =>
         lastRet.body = ErrorBody("Failed to verify challenge")
    /\ lastOp = "handleProfileFetch" =>
         lastRet.body = ErrorBody("Failed to fetch profile")
    /\ lastRet.status = 500
    /\ lastRet.sent = 1
    /\ ~lastRet.rethrown
    /\ ~lastRet.nextCalled

C14_Witness ==
  /\ HttpRan("handleVerify")
  /\ lastArg.called = <<"verifyChallenge">>
  /\ lastArg.outcome = "rejected"
  /\ lastArg.req.body.challengeId \in DOMAIN challenges
  /\ lastRet.status = 500
  /\ lastRet.body.error = "Failed to verify challenge"

\* C15: handleVerification of the middleware with an injected service calls
\* generateToken, and sends a token, only if verifyChallenge resolved with
\* success:true and a pubkey; a result with success:false is sent as it is with
\* status 401; when verifyChallenge rejects, next is called and nothing is sent.
C15_TokenOnlyAfterVerifiedPubkey ==
  (Sb /\ lastOp = "handleVerification") =>
    LET resolved == lastArg.outcome = "resolved"
        verified == resolved /\ lastArg.result.success
                      /\ lastArg.result.pubkey # NoPubkey
        called == {lastArg.called[i] : i \in 1..Len(lastArg.called)}
    IN  /\ "generateToken" \in called => verified
        /\ ("token" \in lastRet.body.has \/ lastRet.body.token # NoToken) => verified
        /\ (resolved /\ ~lastArg.result.success) =>
             /\ lastRet.status = 401 /\ lastRet.sent = 1
             /\ lastRet.body.has = {"success", "error"}
             /\ ~lastRet.body.success
             /\ lastRet.body.error = lastArg.result.error
             /\ ~lastRet.nextCalled
        /\ lastArg.outcome = "rejected" =>
             (lastRet.nextCalled /\ lastRet.sent = 0)

C15_Witness ==
  /\ Sb /\ lastOp = "handleVerification"
  /\ lastArg.outcome = "resolved"
  /\ lastArg.result.error = "Challenge not found"
  /\ lastArg.called = <<"verifyChallenge">>
  /\ lastRet.status = 401
  /\ lastRet.body.error = "Challenge not found"
  /\ lastRet.body.token = NoToken

\* C16: createNostrAuth returns, without throwing, a NostrAuthMiddleware with
\* a router for the configuration that supplies privateKey, supabaseUrl,
\* supabaseKey, port and keyManagementMode 'development' and omits publicKey
\* and jwtSecret.
C16_CreateNostrAuthReturns ==
  (lastOp = "createNostrAuth" /\ lastArg.options = ModuleTestOptions) =>
    (lastRet.threw = "" /\ lastRet.instance /\ lastRet.router)

\* C17: in both services verifyChallenge succeeds only for an event of kind
\* 22242 whose created_at is within 300 seconds of the server's current time.
C17_SuccessNeedsEventShape ==
  (IsVerify /\ lastRet.success) =>
    /\ lastArg.event.kind = ChallengeKind
    /\ lastArg.event.created_at - NowSec <= MAX_TIMESTAMP_DIFF
    /\ NowSec - lastArg.event.created_at <= MAX_TIMESTAMP_DIFF

\* C18: NostrEventValidator.validateEvent answers false for every event whose
\* created_at is more than 300 seconds before or after the server's current
\* second, and for every event with a tags entry that is not an array of at
\* least 2 elements; for |created_at - now| <= 300 it does not reject for the
\* timestamp, and the shape-only version accepts the event when its required
\* fields are present and its tags well formed.
C18_TimestampWindowAndTagShape ==
  (variant = "validator" /\ lastOp = "validateEvent") =>
    LET e == lastArg.event
        diff == e.created_at - NowSec
        inside == diff <= 300 /\ diff >= 0 - 300
        badTag == \E i \in 1..Len(e.tags.items) :
                    ~e.tags.items[i].array \/ Len(e.tags.items[i].items) < 2
    IN  /\ ~inside => ~lastRet.valid
        /\ badTag => ~lastRet.valid
        /\ inside =>
             lastRet.warned # "Event timestamp is too far from current time"
        /\ (/\ inside /\ lastArg.version = "shape"
            /\ e.tags.array /\ ~badTag
            /\ e.kind # 0 /\ e.sig # EmptySig) => lastRet.valid

C18_Witness ==
  /\ variant = "validator" /\ lastOp = "validateEvent"
  /\ lastArg.version = "full"
  /\ lastArg.event.created_at = NowSec - 300
  /\ now = ClockStartMs + 999
  /\ lastRet.valid

\* C19: every challenge createChallenge of the Supabase-backed service builds
\* has expires_at = created_at + floor(eventTimeoutMs / 1000), eventTimeoutMs
\* being the configured value, or 300000 when it was left undefined or 0, and
\* created_at is the current time in whole seconds.
C19_ExpiresAtFromTimeout ==
  Sb =>
    /\ \A c \in issued :
         \E raw \in SbRawConfigs :
           /\ SbConstructor(raw) = config
           /\ c.expires_at =
                c.created_at
                  + ((IF raw.eventTimeoutMs = 0 THEN 300000 ELSE raw.eventTimeoutMs)
                       \div 1000)
    /\ lastOp = "createChallenge" =>
         \A c \in issued :
           c.challenge = lastRet.challenge => c.created_at = now \div 1000

C19_Witness ==
  /\ Sb /\ lastOp = "createChallenge"
  /\ now > 0
  /\ \E c \in issued :
       /\ c.challenge = lastRet.challenge
       /\ c.created_at = now \div 1000
       /\ c.expires_at = c.created_at + 300
  /\ \E c \in issued : c.created_at = 0

\* x is one of the comma-separated entries of s
IsEntryOf(x, s) ==
  LET padded == <<",">> \o s \o <<",">>
      wanted == <<",">> \o x \o <<",">>
  IN  /\ \A i \in 1..Len(x) : x[i] # ","
      /\ \E i \in 1..Len(padded) :
           /\ i + Len(wanted) - 1 <= Len(padded)
           /\ SubSeq(padded, i, i + Len(wanted) - 1) = wanted

ListsAnAddress ==
  /\ config.ALLOWED_IPS.set
  /\ \E i \in 1..Len(config.ALLOWED_IPS.value) : config.ALLOWED_IPS.value[i] # ","

\* C21: when ALLOWED_IPS is unset or lists no address ipWhitelist refuses no
\* request; when it lists an address, a request whose req.ip is not a listed
\* one is answered 403 'Access denied' and neither validateApiKey nor any
\* route handler (the /health one included) runs, and every request that is
\* not answered 403 comes from a listed address.
C21_IpWhitelistGatesEverything ==
  (variant = "server" /\ lastOp = "request") =>
    LET ip == lastArg.req.ip
        ipListed == /\ ip.set /\ ip.value # <<>>
                    /\ IsEntryOf(ip.value, config.ALLOWED_IPS.value)
    IN  /\ ~ListsAnAddress => lastRet.status # 403
        /\ (ListsAnAddress /\ ~ipListed) =>
             /\ lastRet.status = 403 /\ lastRet.error = "Access denied"
             /\ lastRet.sent = 1
             /\ lastRet.ran = "none"
             /\ ~lastRet.keyChecked /\ ~lastRet.keyNext
        /\ (ListsAnAddress /\ ipListed) => lastRet.status # 403
        /\ lastRet.ran # "none" => (~ListsAnAddress \/ ipListed)

C21_Witness ==
  /\ variant = "server" /\ lastOp = "request"
  /\ config.ALLOWED_IPS = Defined(<<"a", ",", "a", "a">>)
  /\ lastArg.req.ip = Undefined
  /\ lastArg.req.method = "GET" /\ lastArg.req.path = "/health"
  /\ lastRet.status = 403 /\ lastRet.ran = "none"

\* C22: a validateSession call that has returned has not thrown, and it
\* returned true exactly when an extension is present, session.pubkey is
\* non-empty and getPublicKey() resolved to session.pubkey.
C22_ValidateSessionTrueIffSameKey ==
  (variant = "browser" /\ lastOp = "validateSession" /\ lastRet.settled) =>
    /\ ~lastRet.threw
    /\ lastRet.value \in BOOLEAN
    /\ lastRet.value <=>
         /\ config.nostr
         /\ lastArg.session.given /\ lastArg.session.pubkey # ""
         /\ config.getPublicKey = "resolves"
         /\ config.pubkey = lastArg.session.pubkey

C22_Witness ==
  /\ variant = "browser" /\ lastOp = "validateSession"
  /\ config.nostr /\ config.getPublicKey = "rejects"
  /\ lastArg.session = Session("alice")
  /\ lastRet = Resolved(FALSE)

\* C23: parsing a key generated for a non-empty userId gives back that userId,
\* the generation timestamp and the generated hash.
C23_ParseInvertsGenerate ==
  (variant = "apikey" /\ lastOp = "parseGenerated") =>
    /\ lastRet.ok
    /\ lastRet.userId = lastArg.userId
    /\ lastRet.timestamp = NumberToString(now)
    /\ lastRet.hash =
         Sha256Hex(lastArg.userId \o <<":">> \o NumberToString(now) \o <<":">>
                     \o lastArg.secret)

\* C24: with a Supabase client configured, two verifyChallenge calls whose
\* lookups returned the same stored challenge do not both return success.
C24_OverlappingVerifyAtMostOneSuccess ==
  (variant = "supabase" /\ lastOp = "verifying" /\ config.supabase) =>
    ~(/\ lastArg[1].data # NoRow
      /\ lastArg[1].data = lastArg[2].data
      /\ lastRet[1].success
      /\ lastRet[2].success)

\* C25: with a Supabase client configured, verifyChallenge of a validly signed
\* event returns success whenever the newest challenge stored for the event's
\* pubkey has not expired, whatever other rows are stored for that pubkey.
C25_FreshChallengeAuthenticates ==
  (variant = "supabase" /\ lastOp = "verifyChallenge" /\ config.supabase) =>
    LET mine == lastArg.stored
    IN  (/\ lastArg.sigcheck = "true"
         /\ validateEvent(lastArg.event, "true").success
         /\ Len(mine) > 0
         /\ mine[Len(mine)].expires_at >= NowSec)
          => lastRet.success

\* C26: in the in-memory service verifyChallenge(challengeId, signedEvent)
\* does not succeed when signedEvent.pubkey differs from the pubkey for which
\* challengeId was issued.
C26_OnlyRequestingPubkeyVerifies ==
  (Mem /\ IsVerify) =>
    \A c \in issued :
      (lastArg.challengeId = c.id /\ lastArg.event.pubkey # c.pubkey) =>
        ~lastRet.success

\* C27: in the in-memory service every entry of the profile map stored under
\* key k has pubkey k.
C27_ProfileKeyedByItsPubkey ==
  variant = "http" =>
    \A k \in DOMAIN profiles : profiles[k].pubkey = k

\* C28: in the in-memory service a verifyChallenge call that fails changes
\* neither the challenge map nor the profile map, and a correct submission for
\* the same challengeId is judged after it as it would have been before it.
C28_FailedVerifyChangesNothing ==
  [][(variant = "memory" /\ lastOp' = "verifyChallenge" /\ ~lastRet'.success) =>
       /\ UNCHANGED <<challenges, profiles>>
       /\ \A id \in {c.id : c \in issued} \cup {UnknownId}, k \in Keys :
            id = lastArg'.challengeId =>
              MemVerifyResult(id, ClientEvent(k, id, ExpectedContent(id), "none"))'
                = MemVerifyResult(id, ClientEvent(k, id, ExpectedContent(id), "none"))]_vars

C28_Witness ==
  /\ Mem /\ IsVerify
  /\ ~lastRet.success
  /\ lastRet.message = "Verification failed"
  /\ lastArg.challengeId \in DOMAIN challenges
  /\ lastArg.event.pubkey \notin DOMAIN profiles

\* C29: a successful createChallenge of the in-memory service removes from
\* the challenge map exactly the entries with expiresAt < now, leaves the other
\* entries as they were, and adds one entry, under the new challenge event's
\* id, with expiresAt = now + 300000.
C29_CreateChallengeFrame ==
  [][(variant = "memory" /\ lastOp' = "createChallenge" /\ ~lastRet'.threw) =>
       LET expired == {id \in DOMAIN challenges : challenges[id].expiresAt < now}
           added == lastRet'.challenge.id
       IN  /\ added \notin DOMAIN challenges
           /\ DOMAIN challenges' = (DOMAIN challenges \ expired) \cup {added}
           /\ \A id \in DOMAIN challenges \ expired : challenges'[id] = challenges[id]
           /\ challenges'[added].id = added
           /\ challenges'[added].event.id = added
           /\ challenges'[added].expiresAt = now + 300000]_vars

C29_Witness ==
  /\ Mem /\ lastOp = "createChallenge" /\ ~lastRet.threw
  /\ nrand = 2
  /\ now = 300000
  /\ Cardinality(DOMAIN challenges) = 2
  /\ \E id \in DOMAIN challenges : challenges[id].expiresAt = now

====
